---- MODULE Spec2Model ----
(***************************************************************************)
(* LetterGrader: a model of the record pipeline (src/src/main.c,           *)
(* student.c, helper.c, file.c).  Strings are sequences of one-character   *)
(* strings; a double is the exact non-negative value it holds, scaled by   *)
(* 2^56 and kept in four 16-bit limbs (least significant first), with      *)
(* IEEE-754 round-to-nearest-even applied after every multiplication and   *)
(* addition, as the C abstract machine does with FLT_EVAL_METHOD 0.        *)
(***************************************************************************)
EXTENDS Integers, Sequences, FiniteSets, TLC

VARIABLES
    inputFile,   \* the bytes of the input file
    filePos,     \* the read position of the input stream (ftell)
    pc,          \* where main is
    heap,        \* the allocated Record nodes: node id -> struct node
    head,        \* student.c's file-scope list head
    DataString,  \* the line last handed to create_student
    createRet,   \* what that create_student call returned
    console,     \* the error messages printed so far
    outFile,     \* the lines written to the output file
    stats,       \* the statistics rows shown
    status,      \* main's return status
    temp,        \* get_next_token's static copy of the line
    nullDeref,   \* a NULL pointer was dereferenced
    openFiles,   \* the streams that are open
    stages,      \* the calls main and read_student_data have made, in order
    freed,       \* the Record nodes released by delete_students
    recA, recB,  \* the records a grade run works on
    retA, retB,  \* what calculate_grade returned for them
    sortSt       \* a run of sort_list_by_name, step by step

vars == <<inputFile, filePos, pc, heap, head, DataString, createRet, console,
          outFile, stats, status, temp, nullDeref, openFiles, stages, freed,
          recA, recB, retA, retB, sortSt>>

pipeVars == <<inputFile, filePos, pc, heap, head, DataString, createRet,
              console, outFile, stats, status, temp, nullDeref, openFiles,
              stages, freed>>

gradeVars == <<recA, recB, retA, retB>>

----------------------------------------------------------------------------
(* types.h, constants.h *)

SUCCESS == "SUCCESS"

FAILURE == "FAILURE"

NULL == 0

MINIMUM_SCORE == 0

MAXIMUM_SCORE == 100

SIZE_OF_NEW_LINE == 2

NAME_WIDTH == 20

GRADE_WIDTH == 5

COMMA == ","

END_OF_LINE_CHAR == "\n"

CARRIAGE_RETURN == "\r"

\* '\0': the string terminator, and the value of a grade not yet set.
STRING_TERMINATION == "NUL"

----------------------------------------------------------------------------
(* Characters and the C string functions the program calls *)

Digits == <<"0", "1", "2", "3", "4", "5", "6", "7", "8", "9">>

Upper == <<"A", "B", "C", "D", "E", "F", "G", "H", "I", "J", "K", "L", "M",
           "N", "O", "P", "Q", "R", "S", "T", "U", "V", "W", "X", "Y", "Z">>

Lower == <<"a", "b", "c", "d", "e", "f", "g", "h", "i", "j", "k", "l", "m",
           "n", "o", "p", "q", "r", "s", "t", "u", "v", "w", "x", "y", "z">>

Range(s) == {s[i] : i \in 1..Len(s)}

IndexOf(s, c) == CHOOSE i \in 1..Len(s) : s[i] = c

IsDigit(c) == c \in Range(Digits)

DigitValue(c) == IndexOf(Digits, c) - 1

\* The ASCII code of a character: what strcmp compares as unsigned char.
CharCode(c) ==
    CASE c = END_OF_LINE_CHAR -> 10
      [] c = CARRIAGE_RETURN -> 13
      [] c = " " -> 32
      [] c = "+" -> 43
      [] c = COMMA -> 44
      [] c = "-" -> 45
      [] c \in Range(Digits) -> 47 + IndexOf(Digits, c)
      [] c \in Range(Upper) -> 64 + IndexOf(Upper, c)
      [] c \in Range(Lower) -> 96 + IndexOf(Lower, c)

RECURSIVE strcmpFrom(_, _, _)
strcmpFrom(a, b, i) ==
    IF i > Len(a) /\ i > Len(b) THEN 0
    ELSE IF i > Len(a) THEN 0 - CharCode(b[i])
    ELSE IF i > Len(b) THEN CharCode(a[i])
    ELSE IF a[i] # b[i] THEN CharCode(a[i]) - CharCode(b[i])
    ELSE strcmpFrom(a, b, i + 1)

\* strcmp: the difference of the first pair of bytes that differ.
strcmp(a, b) == strcmpFrom(a, b, 1)

RECURSIVE atoiDigits(_, _, _)
atoiDigits(s, i, acc) ==
    IF i > Len(s) \/ ~IsDigit(s[i]) THEN acc
    ELSE atoiDigits(s, i + 1, acc * 10 + DigitValue(s[i]))

RECURSIVE atoiSkipSpace(_, _)
atoiSkipSpace(s, i) ==
    IF i <= Len(s) /\ s[i] = " " THEN atoiSkipSpace(s, i + 1) ELSE i

\* atoi: optional blanks, an optional sign, then the longest run of digits;
\* no digits give 0, and what follows the digits is ignored.
atoi(s) ==
    LET i == atoiSkipSpace(s, 1)
        neg == i <= Len(s) /\ s[i] = "-"
        j == IF i <= Len(s) /\ s[i] \in {"-", "+"} THEN i + 1 ELSE i
        v == atoiDigits(s, j, 0)
    IN IF neg THEN 0 - v ELSE v

RECURSIVE strtokSkip(_, _)
strtokSkip(s, i) ==
    IF i <= Len(s) /\ s[i] = COMMA THEN strtokSkip(s, i + 1) ELSE i

RECURSIVE strtokEnd(_, _)
strtokEnd(s, i) ==
    IF i <= Len(s) /\ s[i] # COMMA THEN strtokEnd(s, i + 1) ELSE i

\* The token that starts at b and ends before e.
strtokCut(s, b, e) == [isNull |-> FALSE, tok |-> SubSeq(s, b, e - 1), next |-> e + 1]

strtokAt(s, b) ==
    IF b > Len(s) THEN [isNull |-> TRUE, tok |-> <<>>, next |-> b]
    ELSE strtokCut(s, b, strtokEnd(s, b))

\* strtok(., ","): from position `from` of the copy, skip the commas, then
\* take the bytes up to the next comma.  The result is NULL (isNull) when no
\* byte is left; next is where the following call resumes.
strtok(s, from) == strtokAt(s, strtokSkip(s, from))

----------------------------------------------------------------------------
(* IEEE-754 binary64 arithmetic on the values the grade engine meets *)

LimbBase == 2 ^ 16

DblZero == <<0, 0, 0, 0>>

\* (double) n for an int 0 <= n < 256: n * 2^56, exact.
DblOfInt(n) == <<0, 0, 0, n * 256>>

\* The number of significant bits of one limb.
LimbBits(v) == IF v = 0 THEN 0 ELSE CHOOSE n \in 1..16 : 2 ^ (n - 1) <= v /\ v < 2 ^ n

BitLength(x) ==
    IF x[4] # 0 THEN 48 + LimbBits(x[4])
    ELSE IF x[3] # 0 THEN 32 + LimbBits(x[3])
    ELSE IF x[2] # 0 THEN 16 + LimbBits(x[2])
    ELSE LimbBits(x[1])

\* Carry propagation over the four limbs.
Carry3(a, b, c, d) == <<a, b, c % LimbBase, d + c \div LimbBase>>

Carry2(a, b, c, d) == Carry3(a, b % LimbBase, c + b \div LimbBase, d)

Carry1(a, b, c, d) == Carry2(a % LimbBase, b + a \div LimbBase, c, d)

\* x + y, exact.
BigAdd(x, y) == Carry1(x[1] + y[1], x[2] + y[2], x[3] + y[3], x[4] + y[4])

\* k * x for a small natural k, exact.
BigTimes(k, x) == Carry1(k * x[1], k * x[2], k * x[3], k * x[4])

\* Drop the remainder rem of x modulo q = 2^d, rounding to nearest, ties to
\* the even neighbour.
RoundRem(x, q, rem) ==
    IF rem * 2 > q \/ (rem * 2 = q /\ (x[1] \div q) % 2 = 1)
    THEN BigAdd([x EXCEPT ![1] = x[1] - rem], <<q, 0, 0, 0>>)
    ELSE [x EXCEPT ![1] = x[1] - rem]

RoundBy(x, q) == RoundRem(x, q, x[1] % q)

RoundAt(x, d) == IF d <= 0 THEN x ELSE RoundBy(x, 2 ^ d)

\* Round an exact value to the nearest double: keep the 53 leading bits.
\* Values here stay below 2^64, so at most 11 bits, all in the lowest limb,
\* are dropped.
RoundToDouble(x) == RoundAt(x, BitLength(x) - 53)

\* score * weight: the int converts exactly, the product is rounded.
DblTimes(k, w) == RoundToDouble(BigTimes(k, w))

DblPlus(x, y) == RoundToDouble(BigAdd(x, y))

\* x >= y
DblGeq(x, y) ==
    IF x[4] # y[4] THEN x[4] > y[4]
    ELSE IF x[3] # y[3] THEN x[3] > y[3]
    ELSE IF x[2] # y[2] THEN x[2] > y[2]
    ELSE x[1] >= y[1]

----------------------------------------------------------------------------
(* student.c: the grade engine *)

\* {0.1, 0.1, 0.1, 0.1, 0.2, 0.15, 0.25} as the doubles the literals denote.
TEST_WEIGHTS ==
    << <<39322, 39321, 39321, 25>>, <<39322, 39321, 39321, 25>>,
       <<39322, 39321, 39321, 25>>, <<39322, 39321, 39321, 25>>,
       <<13108, 13107, 13107, 51>>, <<26214, 26214, 26214, 38>>,
       <<0, 0, 0, 64>> >>

\* Thresholds whose last entry is not 0.
GRADE_THRESHOLD_ABOVE_ZERO ==
    <<DblOfInt(90), DblOfInt(80), DblOfInt(70), DblOfInt(60), DblOfInt(1)>>

GRADE_THRESHOLD ==
    <<DblOfInt(90), DblOfInt(80), DblOfInt(70), DblOfInt(60), DblOfInt(0)>>

GRADE_LETTER == <<"A", "B", "C", "D", "F">>

nScoresRequired == Len(TEST_WEIGHTS)

\* for (n = 0; n < numberOfScores; n++) sum += scores[n] * TEST_WEIGHTS[n];
RECURSIVE WeightedSum(_, _, _)
WeightedSum(scores, n, sum) ==
    IF n > Len(scores) THEN sum
    ELSE WeightedSum(scores, n + 1,
                     DblPlus(sum, DblTimes(scores[n], TEST_WEIGHTS[n])))

\* The comparison the other way round: threshold >= sum.
ReachesThresholdReversed(sum, n) == DblGeq(GRADE_THRESHOLD[n], sum)

\* The comparison of the threshold scan.
ReachesThreshold(sum, n) == DblGeq(sum, GRADE_THRESHOLD[n])

\* for (n = 0; n < nScoresRequired; n++)
\*     if (sum >= GRADE_THRESHOLD[n]) { grade = GRADE_LETTER[n]; break; }
\* The loop bound is the number of weights; the tables hold fewer entries,
\* so an index past them is a read outside the array (outOfBounds).
RECURSIVE ThresholdScan(_, _, _)
ThresholdScan(sum, n, grade) ==
    IF n > nScoresRequired THEN [grade |-> grade, index |-> n, outOfBounds |-> FALSE]
    ELSE IF n > Len(GRADE_THRESHOLD) THEN [grade |-> grade, index |-> n, outOfBounds |-> TRUE]
    ELSE IF ReachesThreshold(sum, n) THEN [grade |-> GRADE_LETTER[n], index |-> n, outOfBounds |-> FALSE]
    ELSE ThresholdScan(sum, n + 1, grade)

\* The record and the status once the scan has ended.
Graded(record, scan) ==
    [ret |-> SUCCESS, record |-> [record EXCEPT !.grade = scan.grade],
     outOfBounds |-> scan.outOfBounds, index |-> scan.index, msg |-> <<>>]

\* A count check that lets a record with fewer scores through.
calculate_grade_at_most(record) ==
    IF record.numberOfScores > nScoresRequired
    THEN [ret |-> FAILURE, record |-> record, outOfBounds |-> FALSE, index |-> 0,
          msg |-> <<[err |-> "ERR_INCORRECT_SCORE_COUNT", name |-> record.name,
                     actual |-> record.numberOfScores, required |-> nScoresRequired]>>]
    ELSE Graded(record, ThresholdScan(WeightedSum(record.scores, 1, DblZero), 1, record.grade))

\* calculate_grade(record): the status returned, the record afterwards and
\* the message printed (none: <<>>).
calculate_grade(record) ==
    IF record.numberOfScores # nScoresRequired
    THEN [ret |-> FAILURE, record |-> record, outOfBounds |-> FALSE, index |-> 0,
          msg |-> <<[err |-> "ERR_INCORRECT_SCORE_COUNT", name |-> record.name,
                     actual |-> record.numberOfScores, required |-> nScoresRequired]>>]
    ELSE Graded(record, ThresholdScan(WeightedSum(record.scores, 1, DblZero), 1, record.grade))

----------------------------------------------------------------------------
(* helper.c: the tokenizer *)

NullToken == [isNull |-> TRUE, tok |-> <<>>]

\* get_next_token's static temp when it holds no copy.
NullTemp == [isNull |-> TRUE, buf |-> <<>>, save |-> 1]

RECURSIVE strtokCount(_, _, _)
RECURSIVE strtokCounted(_, _, _)
strtokCounted(s, r, n) == IF r.isNull THEN n ELSE strtokCount(s, r.next, n + 1)

strtokCount(s, from, n) == strtokCounted(s, strtok(s, from), n)

\* get_token_count: strtok over a private copy until it returns NULL.
get_token_count(pString) == strtokCount(pString, 1, 0)

\* *token was NULL: the string is copied into the static temp and r is its
\* first token.
FirstToken(string, r) ==
    [ret |-> SUCCESS, token |-> [isNull |-> r.isNull, tok |-> r.tok],
     temp |-> [isNull |-> FALSE, buf |-> string, save |-> r.next]]

\* A following call that keeps the copy when the tokens are used up.
FollowingTokenKeepingCopy(tmp, r) ==
    [ret |-> SUCCESS, token |-> [isNull |-> r.isNull, tok |-> r.tok],
     temp |-> [tmp EXCEPT !.save = r.next]]

\* r is the next token of the copy; the copy is freed when r is NULL.
FollowingToken(tmp, r) ==
    [ret |-> SUCCESS, token |-> [isNull |-> r.isNull, tok |-> r.tok],
     temp |-> IF r.isNull THEN NullTemp ELSE [tmp EXCEPT !.save = r.next]]

\* get_next_token(string, &token) with the static temp tmp.
get_next_token(string, token, tmp) ==
    IF token.isNull THEN FirstToken(string, strtok(string, 1))
    ELSE FollowingToken(tmp, strtok(tmp.buf, tmp.save))

----------------------------------------------------------------------------
(* helper.c: the linked list *)

\* while (last->next != NULL) last = last->next;
RECURSIVE LastNode(_, _)
LastNode(h, n) == IF h[n].next = NULL THEN n ELSE LastNode(h, h[n].next)

\* append_record_list(last, record)
append_record_list(h, last, record) ==
    [h EXCEPT ![record].next = NULL, ![last].next = record]

\* An insertion at the head of the list instead of its tail.
add_record_at_head(h, hd, record) ==
    [ret |-> SUCCESS, heap |-> [h EXCEPT ![record].next = hd], head |-> record]

\* add_record_to_list(&head, record): new_record_list on an empty list,
\* append_record_list after the last node otherwise.
add_record_to_list(h, hd, record) ==
    IF record = NULL
    THEN [ret |-> FAILURE, heap |-> h, head |-> hd]
    ELSE IF hd = NULL
    THEN [ret |-> SUCCESS, heap |-> [h EXCEPT ![record].next = NULL], head |-> record]
    ELSE [ret |-> SUCCESS, heap |-> append_record_list(h, LastNode(h, hd), record),
          head |-> hd]

\* The node ids reachable from n, in list order (at most `fuel` of them).
RECURSIVE Walk(_, _, _)
Walk(h, n, fuel) ==
    IF n = NULL \/ fuel = 0 THEN <<>> ELSE <<n>> \o Walk(h, h[n].next, fuel - 1)

ListOf(h, hd) == Walk(h, hd, Len(h))

\* A record without its link.
Content(h, n) ==
    [name |-> h[n].name, scores |-> h[n].scores,
     numberOfScores |-> h[n].numberOfScores, grade |-> h[n].grade]

Contents(h, order) == [i \in 1..Len(order) |-> Content(h, order[i])]

\* The records of the store, in list order.
StoreOf(h, hd) == Contents(h, ListOf(h, hd))

----------------------------------------------------------------------------
(* student.c: create_student *)

\* What a read through a NULL pointer can do.
UBOutcomes == {"crash", "reads_empty"}

\* A range check that forgets the lower bound.
ScoreAboveMaximum(v) == v > MAXIMUM_SCORE

\* The range check of set_scores.
ScoreInvalid(v) == v > MAXIMUM_SCORE \/ v < MINIMUM_SCORE

RECURSIVE set_scores_loop(_, _, _, _, _, _)
RECURSIVE set_scores_store(_, _, _, _, _, _)
\* The body of set_scores' loop once token i is fetched: store atoi of it,
\* return FAILURE if it is out of range.
set_scores_store(raw, nScores, i, scores, g, v) ==
    IF ScoreInvalid(v)
    THEN [ret |-> FAILURE, scores |-> Append(scores, v), token |-> g.token,
          temp |-> g.temp,
          msg |-> <<[err |-> "ERR_PARSED_SCORE_INVALID", value |-> v,
                     min |-> MINIMUM_SCORE, max |-> MAXIMUM_SCORE]>>]
    ELSE set_scores_loop(raw, g.token, g.temp, nScores, i + 1, Append(scores, v))

\* The score a token gives: atoi of its text.
ScoreOfToken(g) == atoi(g.token.tok)

set_scores_token(raw, nScores, i, scores, g) ==
    set_scores_store(raw, nScores, i, scores, g, ScoreOfToken(g))

\* for (i = 0; i < nScores; i++): the scores read so far, the token and the
\* tokenizer state.
set_scores_loop(raw, token, tmp, nScores, i, scores) ==
    IF i >= nScores
    THEN [ret |-> SUCCESS, scores |-> scores, token |-> token, temp |-> tmp, msg |-> <<>>]
    ELSE set_scores_token(raw, nScores, i, scores, get_next_token(raw, token, tmp))

\* set_scores: malloc(nScores * sizeof(int)) fails for a negative count (the
\* size wraps to nearly SIZE_MAX); then the loop.
set_scores(raw, token, tmp, nScores) ==
    IF nScores < 0
    THEN [ret |-> FAILURE, scores |-> <<>>, token |-> token, temp |-> tmp,
          msg |-> <<[err |-> "ERR_MEMORY_ALLOCATION_ARRAY"]>>]
    ELSE set_scores_loop(raw, token, tmp, nScores, 0, <<>>)

\* set_name once the first token g is fetched.  The check
\* "tempDataString == NULL" tests the address of the caller's variable, which
\* is never NULL, so an absent first token reaches strlen(NULL): undefined
\* behaviour, resolved by ub.
set_name_token(g, ub) ==
    IF g.token.isNull
    THEN [ret |-> SUCCESS, name |-> <<>>, token |-> g.token, temp |-> g.temp,
          nullDeref |-> TRUE, crashed |-> ub = "crash"]
    ELSE [ret |-> SUCCESS, name |-> g.token.tok, token |-> g.token, temp |-> g.temp,
          nullDeref |-> FALSE, crashed |-> FALSE]

set_name(raw, ub) == set_name_token(get_next_token(raw, NullToken, NullTemp), ub)

\* The struct node create_student fills in.
NewRecord(name, scores, nScores) ==
    [name |-> name, scores |-> scores, numberOfScores |-> nScores,
     grade |-> STRING_TERMINATION, next |-> NULL]

\* The end of create_student: the token memory is released (rel), the record
\* is allocated and added to the list (added).
create_student_add(nm, rel, added) ==
    [ret |-> added.ret, heap |-> added.heap, head |-> added.head, temp |-> rel.temp,
     msg |-> <<>>, nullDeref |-> nm.nullDeref, crashed |-> FALSE]

\* create_student after set_scores returned sc.
create_student_scores(raw, h, hd, nScores, nm, sc) ==
    IF sc.ret # SUCCESS
    THEN [ret |-> FAILURE, heap |-> h, head |-> hd, temp |-> sc.temp, msg |-> sc.msg,
          nullDeref |-> nm.nullDeref, crashed |-> FALSE]
    ELSE create_student_add(nm, get_next_token(raw, sc.token, sc.temp),
             add_record_to_list(Append(h, NewRecord(nm.name, sc.scores, nScores)),
                                hd, Len(h) + 1))

\* create_student after set_name returned nm.
create_student_name(raw, h, hd, nScores, nm) ==
    IF nm.crashed
    THEN [ret |-> "none", heap |-> h, head |-> hd, temp |-> nm.temp, msg |-> <<>>,
          nullDeref |-> TRUE, crashed |-> TRUE]
    ELSE create_student_scores(raw, h, hd, nScores, nm,
                               set_scores(raw, nm.token, nm.temp, nScores))

\* create_student(rawDataString) on the store (h, hd): the status returned,
\* the store and the tokenizer afterwards, the message printed.
create_student(raw, h, hd, ub) ==
    create_student_name(raw, h, hd, get_token_count(raw) - 1, set_name(raw, ub))

----------------------------------------------------------------------------
(* helper.c: sort_list_by_name, one loop step at a time *)

\* The test with the comparison turned round.
OutOfOrderReversed(a, b) == strcmp(a, b) < 0

\* The test that also swaps equal names.
OutOfOrderOrEqual(a, b) == strcmp(a, b) >= 0

\* The test that decides a swap: strcmp(current->name, next->name) > 0.
OutOfOrder(a, b) == strcmp(a, b) > 0

SortLocals(h, hd) ==
    [heap |-> h, head |-> hd, isSwap |-> TRUE, previous |-> NULL,
     current |-> NULL, passes |-> 0, swaps |-> 0, msg |-> <<>>,
     pc |-> "outer", ret |-> "none"]

\* Entry of sort_list_by_name: the two early returns, then the locals.
sort_enter(h, hd) ==
    IF hd = NULL
    THEN [SortLocals(h, hd) EXCEPT !.msg = <<[err |-> "ERR_RECORD_EMPTY"]>>,
                                   !.pc = "return", !.ret = FAILURE]
    ELSE IF h[hd].next = NULL
    THEN [SortLocals(h, hd) EXCEPT !.pc = "return", !.ret = SUCCESS]
    ELSE SortLocals(h, hd)

\* One evaluation of "while (isSwap)": start a pass or return SUCCESS.
sort_outer(st) ==
    IF st.isSwap
    THEN [st EXCEPT !.isSwap = FALSE, !.current = st.head, !.previous = NULL,
                    !.pc = "inner", !.passes = @ + 1, !.swaps = 0]
    ELSE [st EXCEPT !.pc = "return", !.ret = SUCCESS]

\* A relinking that forgets "previous->next = next".
RelinkWithoutPrevious(h, previous, cur, nxt) ==
    [h EXCEPT ![cur].next = h[nxt].next, ![nxt].next = cur]

\* previous->next = next (or *head = next); current->next = next->next;
\* next->next = current.
Relink(h, previous, cur, nxt) ==
    IF previous = NULL
    THEN [h EXCEPT ![cur].next = h[nxt].next, ![nxt].next = cur]
    ELSE [h EXCEPT ![previous].next = nxt, ![cur].next = h[nxt].next, ![nxt].next = cur]

\* A swap that forgets "*head = next" when the head node is swapped.
sort_swap_keeping_head(st, cur, nxt) ==
    [st EXCEPT !.isSwap = TRUE,
               !.heap = Relink(st.heap, st.previous, cur, nxt),
               !.previous = nxt, !.swaps = @ + 1]

\* A swap that does not mark the pass as one that swapped.
sort_swap_unmarked(st, cur, nxt) ==
    [st EXCEPT !.head = IF st.previous = NULL THEN nxt ELSE st.head,
               !.heap = Relink(st.heap, st.previous, cur, nxt),
               !.previous = nxt, !.swaps = @ + 1]

sort_swap(st, cur, nxt) ==
    [st EXCEPT !.isSwap = TRUE,
               !.head = IF st.previous = NULL THEN nxt ELSE st.head,
               !.heap = Relink(st.heap, st.previous, cur, nxt),
               !.previous = nxt, !.swaps = @ + 1]

sort_compare(st, cur, nxt) ==
    IF nxt = NULL THEN [st EXCEPT !.pc = "outer"]
    ELSE IF OutOfOrder(st.heap[cur].name, st.heap[nxt].name) THEN sort_swap(st, cur, nxt)
    ELSE [st EXCEPT !.previous = cur, !.current = nxt]

\* One evaluation of "while (current->next != NULL)" and of its body.
sort_inner(st) == sort_compare(st, st.current, st.heap[st.current].next)

sort_step(st) == IF st.pc = "outer" THEN sort_outer(st) ELSE sort_inner(st)

RECURSIVE sort_run(_)
sort_run(st) == IF st.pc = "return" THEN st ELSE sort_run(sort_step(st))

\* sort_list_by_name(&head), run to its return.
sort_list_by_name(h, hd) == sort_run(sort_enter(h, hd))

----------------------------------------------------------------------------
(* file.c: the line chunking *)

\* The getc loop of is_line_available_for_read from offset pos: the size it
\* computes for the line that starts at readStart.
RECURSIVE ScanLine(_, _, _)
ScanLine(file, readStart, pos) ==
    IF pos >= Len(file) THEN pos - readStart
    ELSE IF file[pos + 1] = END_OF_LINE_CHAR THEN (pos + 1) - SIZE_OF_NEW_LINE - readStart
    ELSE ScanLine(file, readStart, pos + 1)

LineAvailable(readSize) == [ret |-> SUCCESS, IsLine |-> readSize > 0, DataSize |-> readSize]

is_line_available_for_read(file, readStart) ==
    LineAvailable(ScanLine(file, readStart, readStart))

\* The bytes fread delivers, up to offset last, and the position after fseek.
LineRead(file, pos, last) ==
    [ret |-> SUCCESS, line |-> SubSeq(file, pos + 1, last), pos |-> last + SIZE_OF_NEW_LINE]

\* read_one_line_from_file: fread of nSize bytes, then fseek over
\* SIZE_OF_NEW_LINE bytes.
read_one_line_from_file(file, pos, nSize) ==
    LineRead(file, pos, IF pos + nSize > Len(file) THEN Len(file) ELSE pos + nSize)

----------------------------------------------------------------------------
(* student.c: grading the store, the report, the statistics, the teardown *)

RECURSIVE grade_from(_, _)
RECURSIVE grade_node(_, _, _)
\* A loop body that goes on to the next record after a failure.
grade_node_continue(h, n, g) ==
    IF g.ret # SUCCESS
    THEN grade_from(h, h[n].next)
    ELSE grade_from([h EXCEPT ![n].grade = g.record.grade], h[n].next)

\* The body of calculate_student_grade's loop once calculate_grade returned g.
grade_node(h, n, g) ==
    IF g.ret # SUCCESS
    THEN [ret |-> FAILURE, heap |-> h, msg |-> g.msg]
    ELSE grade_from([h EXCEPT ![n].grade = g.record.grade], h[n].next)

\* while (current != NULL): stop at the first failure.
grade_from(h, n) ==
    IF n = NULL THEN [ret |-> SUCCESS, heap |-> h, msg |-> <<>>]
    ELSE grade_node(h, n, calculate_grade(Content(h, n)))

calculate_student_grade(h, hd) == grade_from(h, hd)

\* A count of the links between the records instead of the records.
count_links(h, hd) == IF hd = NULL THEN 0 ELSE Len(ListOf(h, hd)) - 1

\* set_number_of_students: the length of the list.
set_number_of_students(h, hd) == Len(ListOf(h, hd))

Spaces(n) == [i \in 1..n |-> " "]

\* "%-*s%*c\n": the name left-justified in at least NAME_WIDTH columns, the
\* grade right-justified in GRADE_WIDTH columns, a newline.
FormatStudent(name, grade) ==
    name \o Spaces(IF Len(name) < NAME_WIDTH THEN NAME_WIDTH - Len(name) ELSE 0)
         \o Spaces(GRADE_WIDTH - 1) \o <<grade>> \o <<END_OF_LINE_CHAR>>

\* The loop of write_names_and_grades_to_file over the nodes in list order.
StudentLines(h, order) ==
    [i \in 1..Len(order) |->
       [kind |-> "record", text |-> FormatStudent(h[order[i]].name, h[order[i]].grade)]]

\* write_names_and_grades_to_file once the sort returned srt: SUCCESS also
\* when the sort failed, and then nothing is written.
write_sorted(srt) ==
    [ret |-> SUCCESS, heap |-> srt.heap, head |-> srt.head,
     lines |-> IF srt.ret # SUCCESS THEN <<>>
               ELSE StudentLines(srt.heap, ListOf(srt.heap, srt.head)),
     msg |-> srt.msg, sortRet |-> srt.ret]

write_names_and_grades_to_file(h, hd) == write_sorted(sort_list_by_name(h, hd))

\* write_file_header: the count of students in the header line.
write_file_header(h, hd) ==
    [kind |-> "header", students |-> set_number_of_students(h, hd)]

ColumnOf(h, order, c) == [i \in 1..Len(order) |-> h[order[i]].scores[c + 1]]

\* The column-c scores of the records in list order.
Column(h, hd, c) == ColumnOf(h, ListOf(h, hd), c)

RECURSIVE SumSeq(_)
SumSeq(q) == IF q = <<>> THEN 0 ELSE Head(q) + SumSeq(Tail(q))

RECURSIVE MinFold(_, _)
MinFold(q, m) == IF q = <<>> THEN m ELSE MinFold(Tail(q), IF m > Head(q) THEN Head(q) ELSE m)

RECURSIVE MaxFold(_, _)
MaxFold(q, m) == IF q = <<>> THEN m ELSE MaxFold(Tail(q), IF m < Head(q) THEN Head(q) ELSE m)

\* An average that leaves the first record out of the sum.
AverageSkippingFirst(col) ==
    IF Len(col) <= 0
    THEN [ret |-> FAILURE, sum |-> 0, nStudents |-> 0,
          msg |-> <<[err |-> "ERR_DIVIDE_BY_ZERO"]>>]
    ELSE [ret |-> SUCCESS, sum |-> SumSeq(Tail(col)), nStudents |-> Len(col), msg |-> <<>>]

AverageOf(col) ==
    IF Len(col) <= 0
    THEN [ret |-> FAILURE, sum |-> 0, nStudents |-> 0,
          msg |-> <<[err |-> "ERR_DIVIDE_BY_ZERO"]>>]
    ELSE [ret |-> SUCCESS, sum |-> SumSeq(col), nStudents |-> Len(col), msg |-> <<>>]

\* calculate_average: sum / nStudents, kept as the pair it is the quotient
\* of; FAILURE when the list is empty.
calculate_average(h, hd, c) == AverageOf(Column(h, hd, c))

\* A minimum whose fold starts at the lowest score instead of the highest.
calculate_minimum_from_lowest(h, hd, c) ==
    [ret |-> SUCCESS, value |-> MinFold(Column(h, hd, c), MINIMUM_SCORE)]

calculate_minimum(h, hd, c) ==
    [ret |-> SUCCESS, value |-> MinFold(Column(h, hd, c), MAXIMUM_SCORE)]

calculate_maximum(h, hd, c) ==
    [ret |-> SUCCESS, value |-> MaxFold(Column(h, hd, c), MINIMUM_SCORE)]

nColumns == 7

\* show_average, show_minimum, show_maximum: one value per column.
StatisticsRows(h, hd) ==
    [average |-> [c \in 0..(nColumns - 1) |-> calculate_average(h, hd, c)],
     minimum |-> [c \in 0..(nColumns - 1) |-> calculate_minimum(h, hd, c).value],
     maximum |-> [c \in 0..(nColumns - 1) |-> calculate_maximum(h, hd, c).value]]

\* show_class_statistics: show_average returns at the first column whose
\* average fails, and then no row is completed.
show_statistics(first, h, hd) ==
    IF first.ret # SUCCESS
    THEN [ret |-> FAILURE, rows |-> <<>>, msg |-> first.msg]
    ELSE [ret |-> SUCCESS, rows |-> StatisticsRows(h, hd), msg |-> <<>>]

show_class_statistics(h, hd) == show_statistics(calculate_average(h, hd, 0), h, hd)

\* delete_students: every node of the list is freed and head ends NULL.
delete_students(h, hd) ==
    [ret |-> SUCCESS, head |-> NULL, freed |-> Range(ListOf(h, hd))]

----------------------------------------------------------------------------
(* The inputs *)

MaxLines == 2

RECURSIVE Dec(_)
\* The decimal text of a natural number.
Dec(n) == IF n < 10 THEN <<Digits[n + 1]>> ELSE Dec(n \div 10) \o <<Digits[(n % 10) + 1]>>

RECURSIVE Join(_, _)
\* The fields with sep between them.
Join(fields, sep) ==
    IF Len(fields) = 0 THEN <<>>
    ELSE IF Len(fields) = 1 THEN fields[1]
    ELSE fields[1] \o sep \o Join(Tail(fields), sep)

Alice == <<"A", "l", "i", "c", "e">>

Bob == <<"B", "o", "b">>

bob == <<"b", "o", "b">>

Cy == <<"C", "y">>

\* A name of 21 characters, one more than NAME_WIDTH.
Maximilian ==
    <<"M", "a", "x", "i", "m", "i", "l", "i", "a", "n", " ",
      "M", "o", "n", "t", "g", "o", "m", "e", "r", "y">>

All(v) == [i \in 1..7 |-> Dec(v)]

\* Lines of the input file: well-formed ones, and ones with a score out of
\* range, a score that is no number, a missing score, an empty field, a name
\* longer than the name column, no name.
InputLines ==
    { Join(<<Alice>> \o All(90), <<COMMA>>),
      Join(<<Bob>> \o All(50), <<COMMA>>),
      Join(<<bob>> \o All(85), <<COMMA>>),
      Join(<<Bob, Dec(100), Dec(0), Dec(70), Dec(80), Dec(60), Dec(95), Dec(75)>>, <<COMMA>>),
      Join(<<Cy, Dec(90), Dec(150), Dec(90), Dec(90), Dec(90), Dec(90), Dec(90)>>, <<COMMA>>),
      Join(<<Cy, Dec(90), Dec(90), <<"-", "5">>, Dec(90), Dec(90), Dec(90), Dec(90)>>, <<COMMA>>),
      Join(<<Cy, <<"a", "b", "c">>, Dec(90), <<"9", "x">>, Dec(90), Dec(90), Dec(90), Dec(90)>>, <<COMMA>>),
      Join(<<Cy, Dec(90), Dec(90), Dec(90), Dec(90), Dec(90), Dec(90)>>, <<COMMA>>),
      Join(<<Cy, Dec(90), <<>>, Dec(80), Dec(70), Dec(90), Dec(90), Dec(90), Dec(60)>>, <<COMMA>>),
      Join(<<Maximilian>> \o All(70), <<COMMA>>),
      <<COMMA, COMMA, COMMA>> }

LineEndings == {<<END_OF_LINE_CHAR>>, <<CARRIAGE_RETURN, END_OF_LINE_CHAR>>}

LineSequences == UNION {[1..n -> InputLines] : n \in 1..MaxLines}

\* The input files: up to MaxLines lines with one kind of line ending, after
\* the last line or not; the empty file; a file that is one blank line.
InputFiles ==
    {<<>>} \cup LineEndings \cup
    UNION { {Join(ls, e), Join(ls, e) \o e} : ls \in LineSequences, e \in LineEndings }

----------------------------------------------------------------------------
(* main.c: the pipeline *)

IdleSort == [heap |-> <<>>, head |-> NULL, isSwap |-> TRUE, previous |-> NULL,
             current |-> NULL, passes |-> 0, swaps |-> 0, msg |-> <<>>,
             pc |-> "idle", ret |-> "none"]

IdleRecord == [name |-> <<>>, scores |-> <<>>, numberOfScores |-> 0,
               grade |-> STRING_TERMINATION]

GradeIdle == recA = IdleRecord /\ recB = IdleRecord /\ retA = "none" /\ retB = "none"

\* The state when main starts on the given input file.
PipeStart(file) ==
    /\ inputFile = file
    /\ filePos = 0 /\ pc = "start" /\ heap = <<>> /\ head = NULL
    /\ DataString = <<>> /\ createRet = "none" /\ console = <<>> /\ outFile = <<>>
    /\ stats = <<>> /\ status = SUCCESS /\ temp = NullTemp /\ nullDeref = FALSE
    /\ openFiles = {} /\ stages = <<>> /\ freed = {}

Init ==
    /\ \E file \in InputFiles : PipeStart(file)
    /\ GradeIdle
    /\ sortSt = IdleSort

\* process_args, then open_file_in_read_mode: an empty file is an error, and
\* the stream it opened stays open.
OpenInput ==
    /\ pc = "start"
    /\ stages' = Append(stages, "open_file_in_read_mode")
    /\ openFiles' = openFiles \cup {"input"}
    /\ IF Len(inputFile) = 0
       THEN /\ console' = Append(console, [err |-> "ERR_FILE_EMPTY"])
            /\ status' = FAILURE
            /\ pc' = "exit"
       ELSE /\ pc' = "read"
            /\ UNCHANGED <<console, status>>
    /\ UNCHANGED <<inputFile, filePos, heap, head, DataString, createRet, outFile,
                   stats, temp, nullDeref, freed, gradeVars, sortSt>>

\* The effect of one line on main's state: rd is what
\* read_one_line_from_file delivered, cs what create_student returned.  A
\* failure ends process_student_data and read_student_data, which closes the
\* file, and main.
ParseReturn(rd, cs) ==
    /\ DataString' = rd.line
    /\ filePos' = rd.pos
    /\ createRet' = cs.ret
    /\ heap' = cs.heap
    /\ head' = cs.head
    /\ temp' = cs.temp
    /\ nullDeref' = (nullDeref \/ cs.nullDeref)
    /\ console' = console \o cs.msg
    /\ stages' = Append(stages, "create_student")
    /\ IF cs.crashed
       THEN pc' = "crashed" /\ UNCHANGED <<status, openFiles>>
       ELSE IF cs.ret # SUCCESS
       THEN pc' = "exit" /\ status' = FAILURE /\ openFiles' = openFiles \ {"input"}
       ELSE pc' = "read" /\ UNCHANGED <<status, openFiles>>

ParseRead(rd, ub) == ParseReturn(rd, create_student(rd.line, heap, head, ub))

ParseAvailable(av, ub) ==
    /\ av.IsLine
    /\ ParseRead(read_one_line_from_file(inputFile, filePos, av.DataSize), ub)

\* One turn of process_student_data's loop: a line is available, it is read
\* and handed to create_student.
ParseLine ==
    /\ pc = "read"
    /\ \E ub \in UBOutcomes :
         ParseAvailable(is_line_available_for_read(inputFile, filePos), ub)
    /\ UNCHANGED <<inputFile, outFile, stats, freed, gradeVars, sortSt>>

\* No further line: process_student_data returns SUCCESS.
EndOfData ==
    /\ pc = "read"
    /\ ~is_line_available_for_read(inputFile, filePos).IsLine
    /\ pc' = "grade"
    /\ UNCHANGED <<inputFile, filePos, heap, head, DataString, createRet, console,
                   outFile, stats, status, temp, nullDeref, openFiles, stages, freed,
                   gradeVars, sortSt>>

GradeReturn(g) ==
    /\ heap' = g.heap
    /\ console' = console \o g.msg
    /\ IF g.ret # SUCCESS
       THEN pc' = "exit" /\ status' = FAILURE
       ELSE pc' = "write" /\ UNCHANGED status

\* calculate_student_grade, then close_file on either outcome.
Grade ==
    /\ pc = "grade"
    /\ GradeReturn(calculate_student_grade(heap, head))
    /\ stages' = Append(stages, "calculate_student_grade")
    /\ openFiles' = openFiles \ {"input"}
    /\ UNCHANGED <<inputFile, filePos, head, DataString, createRet, outFile, stats,
                   temp, nullDeref, freed, gradeVars, sortSt>>

WriteReturn(header, w) ==
    /\ outFile' = <<header>> \o w.lines
    /\ heap' = w.heap
    /\ head' = w.head
    /\ console' = console \o w.msg

\* write_student_data: open, header, records, close.
WriteReport ==
    /\ pc = "write"
    /\ WriteReturn(write_file_header(heap, head), write_names_and_grades_to_file(heap, head))
    /\ stages' = Append(stages, "write_student_data")
    /\ pc' = "stats"
    /\ UNCHANGED <<inputFile, filePos, DataString, createRet, stats, status, temp,
                   nullDeref, openFiles, freed, gradeVars, sortSt>>

\* A main that goes on to the teardown whatever show_class_statistics returned.
StatisticsReturnIgnored(r) ==
    /\ stats' = r.rows
    /\ console' = console \o r.msg
    /\ pc' = "teardown" /\ UNCHANGED status

StatisticsReturn(r) ==
    /\ stats' = r.rows
    /\ console' = console \o r.msg
    /\ IF r.ret # SUCCESS
       THEN pc' = "exit" /\ status' = FAILURE
       ELSE pc' = "teardown" /\ UNCHANGED status

\* show_class_statistics.
ShowStatistics ==
    /\ pc = "stats"
    /\ StatisticsReturn(show_class_statistics(heap, head))
    /\ stages' = Append(stages, "show_class_statistics")
    /\ UNCHANGED <<inputFile, filePos, heap, head, DataString, createRet, outFile,
                   temp, nullDeref, openFiles, freed, gradeVars, sortSt>>

TeardownReturn(d) == head' = d.head /\ freed' = freed \cup d.freed

\* clear_dynamic_memmory: delete_students.
Teardown ==
    /\ pc = "teardown"
    /\ TeardownReturn(delete_students(heap, head))
    /\ stages' = Append(stages, "delete_students")
    /\ pc' = "exit"
    /\ UNCHANGED <<inputFile, filePos, heap, DataString, createRet, console, outFile,
                   stats, status, temp, nullDeref, openFiles, gradeVars, sortSt>>

\* main returns status.
Exit ==
    /\ pc = "exit"
    /\ pc' = "done"
    /\ UNCHANGED <<inputFile, filePos, heap, head, DataString, createRet, console,
                   outFile, stats, status, temp, nullDeref, openFiles, stages, freed,
                   gradeVars, sortSt>>

Next ==
    \/ OpenInput
    \/ ParseLine
    \/ EndOfData
    \/ Grade
    \/ WriteReport
    \/ ShowStatistics
    \/ Teardown
    \/ Exit

Spec == Init /\ [][Next]_vars

----------------------------------------------------------------------------
(* calculate_grade, one record at a time *)

\* The pipeline variables while main is not running.
PipeIdle ==
    /\ inputFile = <<>> /\ filePos = 0 /\ pc = "idle" /\ heap = <<>> /\ head = NULL
    /\ DataString = <<>> /\ createRet = "none" /\ console = <<>> /\ outFile = <<>>
    /\ stats = <<>> /\ status = SUCCESS /\ temp = NullTemp /\ nullDeref = FALSE
    /\ openFiles = {} /\ stages = <<>> /\ freed = {}

pipeQuiet == <<inputFile, filePos, pc, heap, head, DataString, createRet, outFile,
               stats, status, temp, nullDeref, openFiles, stages, freed>>

\* A record as create_student leaves it.
Ungraded(name, scores) ==
    [name |-> name, scores |-> scores, numberOfScores |-> Len(scores),
     grade |-> STRING_TERMINATION]

\* Score vectors whose weighted sum lies on either side of 90.
NearThreshold == [1..7 -> {86, 94}]

\* Score vectors of the required length: the ones near 90, the same score in
\* every test, and sums that are exactly 60, 70 and 80.
GradeVectors ==
    NearThreshold \cup
    { [i \in 1..7 |-> v] : v \in {0, 50, 60, 70, 80, 90, 100} } \cup
    { <<100, 0, 70, 80, 60, 95, 75>>, <<43, 43, 43, 77, 43, 77, 77>>,
      <<86, 86, 86, 89, 86, 89, 19>>, <<86, 86, 86, 89, 86, 89, 59>> }

\* Score vectors of another length.
OtherCounts ==
    { <<>>, <<90>>, <<90, 90, 90, 90, 90, 90>>, <<0, 0, 0, 0, 0, 0>>,
      <<90, 90, 90, 90, 90, 90, 90, 90>> }

Leq(u, v) == Len(u) = Len(v) /\ \A i \in 1..Len(u) : u[i] <= v[i]

\* The pairs of score vectors a run grades: u <= v in every test, or twice
\* a vector of another length.
GradePairs ==
    {p \in GradeVectors \X GradeVectors : Leq(p[1], p[2])} \cup
    {<<r, r>> : r \in OtherCounts}

InitGrade ==
    /\ \E p \in GradePairs :
         /\ recA = Ungraded(Cy, p[1])
         /\ recB = Ungraded(Bob, p[2])
    /\ retA = "none" /\ retB = "none"
    /\ PipeIdle
    /\ sortSt = IdleSort

GradedA(g) == recA' = g.record /\ retA' = g.ret /\ console' = console \o g.msg

\* calculate_grade(&recA)
GradeRecA ==
    /\ retA = "none"
    /\ GradedA(calculate_grade(recA))
    /\ UNCHANGED <<pipeQuiet, recB, retB, sortSt>>

GradedB(g) == recB' = g.record /\ retB' = g.ret /\ console' = console \o g.msg

\* calculate_grade(&recB)
GradeRecB ==
    /\ retB = "none"
    /\ GradedB(calculate_grade(recB))
    /\ UNCHANGED <<pipeQuiet, recA, retA, sortSt>>

NextGrade ==
    \/ GradeRecA
    \/ GradeRecB

SpecGrade == InitGrade /\ [][NextGrade]_vars

----------------------------------------------------------------------------
(* sort_list_by_name, one loop step at a time *)

MaxRecords == 3

Al == <<"A", "l">>

SortNames == {Al, Alice, Bob, bob, Cy}

\* The list create_student builds from the names: node i holds names[i] and
\* links to node i + 1.
BuiltHeap(names) ==
    [i \in 1..Len(names) |->
       [name |-> names[i], scores |-> All(90), numberOfScores |-> 7,
        grade |-> "A", next |-> IF i < Len(names) THEN i + 1 ELSE NULL]]

BuiltHead(names) == IF Len(names) = 0 THEN NULL ELSE 1

NameLists == UNION {[1..n -> SortNames] : n \in 0..MaxRecords}

InitSort ==
    /\ \E names \in NameLists :
         sortSt = [IdleSort EXCEPT !.heap = BuiltHeap(names),
                                   !.head = BuiltHead(names), !.pc = "call"]
    /\ GradeIdle
    /\ PipeIdle

\* The call: the early returns and the initial values of the locals.
SortCall ==
    /\ sortSt.pc = "call"
    /\ sortSt' = sort_enter(sortSt.heap, sortSt.head)
    /\ UNCHANGED <<pipeVars, gradeVars>>

SortOuter ==
    /\ sortSt.pc = "outer"
    /\ sortSt' = sort_outer(sortSt)
    /\ UNCHANGED <<pipeVars, gradeVars>>

SortInner ==
    /\ sortSt.pc = "inner"
    /\ sortSt' = sort_inner(sortSt)
    /\ UNCHANGED <<pipeVars, gradeVars>>

NextSort ==
    \/ SortCall
    \/ SortOuter
    \/ SortInner

SpecSort == InitSort /\ [][NextSort]_vars

\* The sort runs to its return: a call that has started keeps taking steps.
SpecSortFair == SpecSort /\ WF_vars(NextSort)

----------------------------------------------------------------------------
(* Properties: vocabulary *)

Last(q) == q[Len(q)]

\* The fields of a line: the text between commas, empty fields included.
RECURSIVE FieldsFrom(_, _)
FieldsFrom(s, field) ==
    IF s = <<>> THEN <<field>>
    ELSE IF Head(s) = COMMA THEN <<field>> \o FieldsFrom(Tail(s), <<>>)
    ELSE FieldsFrom(Tail(s), Append(field, Head(s)))

Fields(line) == FieldsFrom(line, <<>>)

NonEmpty(f) == f # <<>>

\* The tokens of a line: its non-empty fields.
Tokens(line) == SelectSeq(Fields(line), NonEmpty)

\* The score tokens: every token after the first.
ScoreTokens(line) == IF Tokens(line) = <<>> THEN <<>> ELSE Tail(Tokens(line))

\* The decimal texts of the integers from 0 to 100.
ScoreTexts == {Dec(n) : n \in MINIMUM_SCORE..MAXIMUM_SCORE}

ScoreValue(f) == CHOOSE n \in MINIMUM_SCORE..MAXIMUM_SCORE : Dec(n) = f

\* The texts of the integers from -300 to 300.
IntegerValues == (0 - 300)..300

IntegerText(n) == IF n < 0 THEN <<"-">> \o Dec(0 - n) ELSE Dec(n)

\* The integers with their texts.
IntegerTexts == {<<IntegerText(n), n>> : n \in IntegerValues}

IsIntegerText(f) == \E p \in IntegerTexts : p[1] = f

\* "Name,s1,...,s7": a non-empty name and seven scores from 0 to 100.
WellFormed(line) ==
    /\ Len(Fields(line)) = 8
    /\ Fields(line)[1] # <<>>
    /\ \A i \in 2..8 : Fields(line)[i] \in ScoreTexts

\* The record such a line stands for.
RecordOf(line) ==
    [name |-> Fields(line)[1],
     scores |-> [i \in 1..7 |-> ScoreValue(Fields(line)[i + 1])],
     numberOfScores |-> 7,
     grade |-> STRING_TERMINATION]

\* This step is a call of create_student.
CreateStep == stages' = Append(stages, "create_student")

\* This step is the call of calculate_student_grade.
GradeStep == stages' = Append(stages, "calculate_student_grade")

Store == StoreOf(heap, head)

\* The integers outside 0..100 with their texts.
OutOfRangeTexts == {p \in IntegerTexts : ~(p[2] \in MINIMUM_SCORE..MAXIMUM_SCORE)}

ValuesAmong(tokens) ==
    {p[2] : p \in {q \in OutOfRangeTexts : \E i \in 1..Len(tokens) : tokens[i] = q[1]}}

\* The values of the score tokens of a line that lie outside 0..100.
OutOfRangeValues(line) == ValuesAmong(ScoreTokens(line))

InvalidScore(v) ==
    [err |-> "ERR_PARSED_SCORE_INVALID", value |-> v,
     min |-> MINIMUM_SCORE, max |-> MAXIMUM_SCORE]

ScoreCountMismatch(record) ==
    [err |-> "ERR_INCORRECT_SCORE_COUNT", name |-> record.name,
     actual |-> record.numberOfScores, required |-> 7]

----------------------------------------------------------------------------
(* Properties of create_student *)

\* C1: for every line "Name,s1,...,s7" with a non-empty comma-free Name and
\* every si the decimal text of an integer from 0 to 100, create_student
\* returns SUCCESS and the store afterwards is the store before with one
\* record appended at the tail: name Name, scores s1..s7 in order,
\* numberOfScores 7, grade unset; the earlier records keep their contents and
\* their order.
C1_ValidLineAppendsRecord ==
    [][ (CreateStep /\ WellFormed(DataString')) =>
          /\ createRet' = SUCCESS
          /\ StoreOf(heap', head') = Append(Store, RecordOf(DataString')) ]_vars

\* A well-formed line has been appended behind an earlier record.
C1_Witness ==
    /\ pc = "read"
    /\ createRet = SUCCESS
    /\ WellFormed(DataString)
    /\ Len(Store) = 2
    /\ Store[2] = RecordOf(DataString)
    /\ Store[2].scores = <<100, 0, 70, 80, 60, 95, 75>>
    /\ Store[1].name = Alice

RoundTripInput ==
    Join(<<Join(<<Alice>> \o All(90), <<COMMA>>), Join(<<Bob>> \o All(50), <<COMMA>>)>>,
         <<END_OF_LINE_CHAR>>) \o <<END_OF_LINE_CHAR>>

\* C2: the whole pipeline on "Alice,90,...,90\nBob,50,...,50\n" grades Alice
\* A and Bob F, writes Alice before Bob, and shows average 70, minimum 50 and
\* maximum 90 in each of the 7 columns.
C2_RoundTrip ==
    (pc = "done" /\ inputFile = RoundTripInput) =>
        /\ status = SUCCESS
        /\ Len(outFile) = 3
        /\ outFile[2] = [kind |-> "record", text |-> FormatStudent(Alice, "A")]
        /\ outFile[3] = [kind |-> "record", text |-> FormatStudent(Bob, "F")]
        /\ stats # <<>>
        /\ \A c \in 0..6 :
             /\ stats.average[c].ret = SUCCESS
             /\ stats.average[c].sum = 70 * stats.average[c].nStudents
             /\ stats.minimum[c] = 50
             /\ stats.maximum[c] = 90

\* C5: when a score token of the line has an integer value above 100 or below
\* 0, create_student returns FAILURE and reports such a value with the bounds
\* 0 and 100, the store is as before the call, and main goes to its exit;
\* after that report no stage runs any more.
C5_OutOfRangeScoreAborts ==
    [][ /\ (CreateStep /\ OutOfRangeValues(DataString') # {}) =>
              /\ createRet' = FAILURE
              /\ \E v \in OutOfRangeValues(DataString') :
                   console' = Append(console, InvalidScore(v))
              /\ StoreOf(heap', head') = Store
              /\ pc' = "exit"
              /\ status' = FAILURE
        /\ (console # <<>> /\ Last(console).err = "ERR_PARSED_SCORE_INVALID") =>
              /\ stages' = stages
              /\ Last(stages) = "create_student"
              /\ outFile' = <<>> /\ stats' = <<>> /\ heap' = heap /\ head' = head
              /\ status' = FAILURE ]_vars

\* The score 150 in the second line is reported and the first record stays.
C5_Witness ==
    /\ pc = "done"
    /\ status = FAILURE
    /\ createRet = FAILURE
    /\ Last(console) = InvalidScore(150)
    /\ Len(Store) = 1
    /\ Store[1].name = Alice
    /\ stages = <<"open_file_in_read_mode", "create_student", "create_student">>

\* C6: when a score token of the line is not the text of an integer,
\* create_student fails with the invalid-score error and the store is as
\* before the call.
C6_NonNumericScoreRejected ==
    [][ (CreateStep /\ \E i \in 1..Len(ScoreTokens(DataString')) :
                         ~IsIntegerText(ScoreTokens(DataString')[i])) =>
          /\ createRet' = FAILURE
          /\ console' # <<>>
          /\ Last(console').err = "ERR_PARSED_SCORE_INVALID"
          /\ StoreOf(heap', head') = Store ]_vars

\* C7: when the line has no token, create_student returns FAILURE with the
\* missing-name error, the store is as before the call, and no NULL token is
\* read.
C7_MissingNameReported ==
    [][ (CreateStep /\ Tokens(DataString') = <<>>) =>
          /\ createRet' = FAILURE
          /\ console' = Append(console, [err |-> "ERR_PARSED_NAME_EMPTY"])
          /\ StoreOf(heap', head') = Store
          /\ ~nullDeref' ]_vars

----------------------------------------------------------------------------
(* Properties of the grade engine *)

\* The weighted sum times 100, in integers.
ExactSum(s) ==
    10 * s[1] + 10 * s[2] + 10 * s[3] + 10 * s[4] + 20 * s[5] + 15 * s[6] + 25 * s[7]

\* The letter of the first threshold, times 100, that the sum reaches.
ExactLetter(s) ==
    IF ExactSum(s) >= 9000 THEN "A"
    ELSE IF ExactSum(s) >= 8000 THEN "B"
    ELSE IF ExactSum(s) >= 7000 THEN "C"
    ELSE IF ExactSum(s) >= 6000 THEN "D"
    ELSE "F"

\* C3: for a record with 7 scores from 0 to 100 calculate_grade returns
\* SUCCESS and the grade is the letter of the first of (90,A), (80,B), (70,C),
\* (60,D), (0,F) whose threshold is at most the weighted sum, computed
\* exactly: a sum of exactly 90 gives A.
C3_GradeIsExactLetter ==
    (retA # "none" /\ recA.numberOfScores = 7) =>
        /\ retA = SUCCESS
        /\ recA.grade = ExactLetter(recA.scores)

Rank(letter) ==
    CASE letter = "A" -> 5
      [] letter = "B" -> 4
      [] letter = "C" -> 3
      [] letter = "D" -> 2
      [] letter = "F" -> 1
      [] OTHER -> 0

\* C4: for 7-score vectors u <= v in every test the letter of v ranks at
\* least as high as the letter of u (A > B > C > D > F), both being letters,
\* and equal vectors get equal letters.
C4_GradeMonotonic ==
    (retA = SUCCESS /\ retB = SUCCESS /\ Leq(recA.scores, recB.scores)) =>
        /\ Rank(recA.grade) >= 1
        /\ Rank(recB.grade) >= Rank(recA.grade)
        /\ (recA.scores = recB.scores => recA.grade = recB.grade)

\* A vector graded B below a vector graded A.
C4_Witness ==
    /\ retA = SUCCESS /\ retB = SUCCESS
    /\ recA.scores = <<86, 86, 86, 94, 86, 94, 94>>
    /\ recB.scores = <<94, 94, 94, 94, 94, 94, 94>>
    /\ recA.grade = "B" /\ recB.grade = "A"

\* C8: calculate_grade returns FAILURE exactly for the records whose
\* numberOfScores is not 7; it then reports the name, the count and 7 and
\* leaves the record as it was; for 7 scores it returns SUCCESS.
C8_ScoreCountChecked ==
    [][ /\ (retA = "none" /\ retA' # "none") =>
              IF recA.numberOfScores # 7
              THEN /\ retA' = FAILURE
                   /\ recA' = recA
                   /\ console' = Append(console, ScoreCountMismatch(recA))
              ELSE /\ retA' = SUCCESS
                   /\ console' = console
        /\ (retB = "none" /\ retB' # "none") =>
              IF recB.numberOfScores # 7
              THEN /\ retB' = FAILURE
                   /\ recB' = recB
                   /\ console' = Append(console, ScoreCountMismatch(recB))
              ELSE /\ retB' = SUCCESS
                   /\ console' = console ]_vars

\* A record with 6 scores has been refused and is as it was.
C8_Witness ==
    /\ retA = FAILURE
    /\ recA = Ungraded(Cy, <<90, 90, 90, 90, 90, 90>>)
    /\ console # <<>>
    /\ console[1] = [err |-> "ERR_INCORRECT_SCORE_COUNT", name |-> Cy,
                     actual |-> 6, required |-> 7]

\* The records of the store whose count of scores is not 7.
Miscounted(store) == {i \in 1..Len(store) : store[i].numberOfScores # 7}

FirstOf(S) == CHOOSE i \in S : \A j \in S : i <= j

\* The line is a name followed by six scores from 0 to 100.
SixScores(line) ==
    /\ Len(Fields(line)) = 7
    /\ Fields(line)[1] # <<>>
    /\ \A i \in 2..7 : Fields(line)[i] \in ScoreTexts

\* C9: calculate_student_grade grades the records in store order up to the
\* first one calculate_grade refuses: it then returns FAILURE, that record
\* and every later one stay as they were (grade unset), the count mismatch
\* is reported, and no stage runs afterwards, so nothing is written and no
\* statistics are shown.  A line with 6 scores is accepted by create_student
\* and is refused by the grading with the counts 6 and 7.
C9_GradingStopsAtFirstFailure ==
    [][ /\ GradeStep =>
              IF Miscounted(Store) = {}
              THEN /\ pc' = "write"
                   /\ \A i \in 1..Len(Store) : StoreOf(heap', head')[i].grade # STRING_TERMINATION
              ELSE /\ pc' = "exit" /\ status' = FAILURE
                   /\ console' = Append(console, ScoreCountMismatch(Store[FirstOf(Miscounted(Store))]))
                   /\ Len(StoreOf(heap', head')) = Len(Store)
                   /\ \A i \in 1..Len(Store) :
                        IF i < FirstOf(Miscounted(Store))
                        THEN StoreOf(heap', head')[i].grade # STRING_TERMINATION
                        ELSE /\ StoreOf(heap', head')[i] = Store[i]
                             /\ Store[i].grade = STRING_TERMINATION
        /\ (console # <<>> /\ Last(console).err = "ERR_INCORRECT_SCORE_COUNT") =>
              /\ stages' = stages
              /\ Last(stages) = "calculate_student_grade"
              /\ outFile' = <<>> /\ stats' = <<>>
        /\ (CreateStep /\ SixScores(DataString')) =>
              /\ createRet' = SUCCESS
              /\ Last(StoreOf(heap', head')).numberOfScores = 6 ]_vars

\* A 6-score record first, a 7-score record behind it: the grading has
\* failed with the counts 6 and 7 and neither record has a grade.
C9_Witness ==
    /\ pc = "done"
    /\ status = FAILURE
    /\ Len(Store) = 2
    /\ Store[1].numberOfScores = 6 /\ Store[1].grade = STRING_TERMINATION
    /\ Store[2].numberOfScores = 7 /\ Store[2].grade = STRING_TERMINATION
    /\ Last(console) = [err |-> "ERR_INCORRECT_SCORE_COUNT", name |-> Cy,
                        actual |-> 6, required |-> 7]
    /\ Last(stages) = "calculate_student_grade"
    /\ outFile = <<>> /\ stats = <<>>

----------------------------------------------------------------------------
(* Properties of the sort *)

SortedNames(names) ==
    \A i \in 1..(Len(names) - 1) : strcmp(names[i], names[i + 1]) <= 0

\* The names of the list being sorted, in list order.
SortNamesNow ==
    [i \in 1..Len(ListOf(sortSt.heap, sortSt.head)) |->
       sortSt.heap[ListOf(sortSt.heap, sortSt.head)[i]].name]

\* C10: when sort_list_by_name has returned SUCCESS the store is not empty
\* and every adjacent pair (a, b) in list order has strcmp(a.name, b.name) <= 0.
C10_SortedAfterSuccess ==
    (sortSt.pc = "return" /\ sortSt.ret = SUCCESS) =>
        /\ Len(SortNamesNow) >= 1
        /\ SortedNames(SortNamesNow)

\* Three records that came in descending order have been sorted.
C10_Witness ==
    /\ sortSt.pc = "return" /\ sortSt.ret = SUCCESS
    /\ SortNamesNow = <<Alice, Bob, bob>>
    /\ sortSt.head = 3
    /\ sortSt.passes >= 3

\* The result of running sort_list_by_name to its return on the list at hand.
SortResult == sort_list_by_name(sortSt.heap, sortSt.head)

\* C11: sort_list_by_name applied to a store that is already sorted by name
\* returns SUCCESS, leaves the sequence of records as it is and performs no
\* swap (at most one pass, without a swap).
C11_SortIdempotent ==
    (sortSt.pc = "call" /\ SortedNames(SortNamesNow)) =>
        /\ SortResult.ret = SUCCESS
        /\ ListOf(SortResult.heap, SortResult.head) = ListOf(sortSt.heap, sortSt.head)
        /\ StoreOf(SortResult.heap, SortResult.head) = StoreOf(sortSt.heap, sortSt.head)
        /\ SortResult.passes <= 1
        /\ SortResult.swaps = 0

\* C12: sort_list_by_name on a store of zero records, as on a store of one
\* record, returns SUCCESS, prints no error and leaves the store as it is.
C12_EmptyStoreSortSucceeds ==
    (sortSt.pc = "return" /\ Len(SortNamesNow) <= 1) =>
        /\ sortSt.ret = SUCCESS
        /\ sortSt.msg = <<>>
        /\ sortSt.passes = 0

----------------------------------------------------------------------------
(* Properties of the statistics *)

\* Every record of the store has the seven scores the columns index.
SevenScores == \A i \in 1..Len(Store) : Store[i].numberOfScores = 7

\* The sum of column c over the first k records of the store.
RECURSIVE SumTo(_, _, _)
SumTo(store, c, k) ==
    IF k = 0 THEN 0 ELSE store[k].scores[c + 1] + SumTo(store, c, k - 1)

DivideByZero == [err |-> "ERR_DIVIDE_BY_ZERO"]

\* C13: for a column c in 0..6, calculate_average returns FAILURE with the
\* divide-by-zero error when the store has no record, and otherwise SUCCESS
\* with the sum of scores[c] over all records divided by their number; when
\* show_class_statistics fails this way no row is shown.
C13_AverageIsMean ==
    /\ SevenScores =>
         \A c \in 0..6 :
           IF Len(Store) = 0
           THEN /\ calculate_average(heap, head, c).ret = FAILURE
                /\ calculate_average(heap, head, c).msg = <<DivideByZero>>
           ELSE /\ calculate_average(heap, head, c).ret = SUCCESS
                /\ calculate_average(heap, head, c).msg = <<>>
                /\ calculate_average(heap, head, c).nStudents = Len(Store)
                /\ calculate_average(heap, head, c).sum = SumTo(Store, c, Len(Store))
    /\ (stages # <<>> /\ Last(stages) = "show_class_statistics") =>
         IF stats = <<>>
         THEN status = FAILURE /\ Last(console) = DivideByZero /\ Len(Store) = 0
         ELSE \A c \in 0..6 : stats.average[c].ret = SUCCESS

\* The averages of two records have been shown: 90 and 0 give 90 / 2.
C13_Witness ==
    /\ pc = "teardown"
    /\ Len(Store) = 2
    /\ stats.average[1] = [ret |-> SUCCESS, sum |-> 90, nStudents |-> 2, msg |-> <<>>]
    /\ stats.average[0] = [ret |-> SUCCESS, sum |-> 190, nStudents |-> 2, msg |-> <<>>]

\* The scores of column c in the store.
ColumnValues(store, c) == {store[i].scores[c + 1] : i \in 1..Len(store)}

Smallest(S) == CHOOSE m \in S : \A x \in S : m <= x

Largest(S) == CHOOSE m \in S : \A x \in S : m >= x

\* C14: calculate_minimum and calculate_maximum always return SUCCESS; the
\* minimum is the smallest scores[c] over all records, or 100 for the empty
\* store; the maximum is the largest, or 0 for the empty store; with exactly
\* one record average, minimum and maximum all equal its scores[c].
C14_MinimumMaximum ==
    SevenScores =>
      \A c \in 0..6 :
        /\ calculate_minimum(heap, head, c).ret = SUCCESS
        /\ calculate_maximum(heap, head, c).ret = SUCCESS
        /\ calculate_minimum(heap, head, c).value =
             IF Len(Store) = 0 THEN 100 ELSE Smallest(ColumnValues(Store, c))
        /\ calculate_maximum(heap, head, c).value =
             IF Len(Store) = 0 THEN 0 ELSE Largest(ColumnValues(Store, c))
        /\ Len(Store) = 1 =>
             /\ calculate_minimum(heap, head, c).value = Store[1].scores[c + 1]
             /\ calculate_maximum(heap, head, c).value = Store[1].scores[c + 1]
             /\ calculate_average(heap, head, c).sum = Store[1].scores[c + 1]
             /\ calculate_average(heap, head, c).nStudents = 1

\* The statistics of a single record with different scores have been shown.
C14_Witness ==
    /\ pc = "teardown"
    /\ Len(Store) = 1
    /\ Store[1].scores = <<100, 0, 70, 80, 60, 95, 75>>
    /\ stats.minimum = [c \in 0..6 |-> Store[1].scores[c + 1]]
    /\ stats.maximum = stats.minimum
    /\ \A c \in 0..6 : stats.average[c].sum = Store[1].scores[c + 1]

\* This step is the call of show_class_statistics.
StatisticsStep == stages' = Append(stages, "show_class_statistics")

\* The store as sort_list_by_name would leave it.
SortedHeap == sort_list_by_name(heap, head).heap

SortedHead == sort_list_by_name(heap, head).head

\* C15: calculate_average, calculate_minimum and calculate_maximum leave the
\* store as it is (same records, same order, same names, scores and grades),
\* and for every store and column each gives the same result on the store
\* and on the store sorted by sort_list_by_name.
C15_StatisticsFrame ==
    [][ /\ StatisticsStep => (heap' = heap /\ head' = head)
        /\ SevenScores =>
             \A c \in 0..6 :
               /\ calculate_average(SortedHeap, SortedHead, c) = calculate_average(heap, head, c)
               /\ calculate_minimum(SortedHeap, SortedHead, c) = calculate_minimum(heap, head, c)
               /\ calculate_maximum(SortedHeap, SortedHead, c) = calculate_maximum(heap, head, c) ]_vars

\* Statistics shown for two records that the sort has exchanged.
C15_Witness ==
    /\ pc = "teardown"
    /\ Len(Store) = 2
    /\ head = 2
    /\ Store[1].name = Alice /\ Store[2].name = Bob
    /\ stats # <<>>
    /\ stats.maximum[0] = 100 /\ stats.minimum[1] = 0

----------------------------------------------------------------------------
(* Properties of the report *)

\* This step is the call of write_student_data.
WriteStep == stages' = Append(stages, "write_student_data")

Count(q, x) == Cardinality({i \in 1..Len(q) : q[i] = x})

\* The same records, each as often, in some order.
SameRecords(a, b) ==
    /\ Len(a) = Len(b)
    /\ \A i \in 1..Len(a) : Count(a, a[i]) = Count(b, a[i])

\* The text is the name, then blanks only, then the grade and a newline.
Carries(text, name, grade) ==
    /\ Len(text) >= Len(name) + 2
    /\ SubSeq(text, 1, Len(name)) = name
    /\ \A k \in (Len(name) + 1)..(Len(text) - 2) : text[k] = " "
    /\ text[Len(text) - 1] = grade
    /\ text[Len(text)] = END_OF_LINE_CHAR

\* C16: after write_file_header and write_names_and_grades_to_file on a
\* store of N records the output is one header stating N followed by exactly
\* N record lines, one per record of the store, in ascending order of name,
\* each carrying the record's name and its grade letter.
C16_ReportListsEveryRecord ==
    [][ WriteStep =>
          /\ Len(outFile') = Len(Store) + 1
          /\ outFile'[1] = [kind |-> "header", students |-> Len(Store)]
          /\ SameRecords(StoreOf(heap', head'), Store)
          /\ SortedNames([i \in 1..Len(Store) |-> StoreOf(heap', head')[i].name])
          /\ \A i \in 1..Len(Store) :
               /\ outFile'[i + 1].kind = "record"
               /\ StoreOf(heap', head')[i].grade \in {"A", "B", "C", "D", "F"}
               /\ Carries(outFile'[i + 1].text, StoreOf(heap', head')[i].name,
                          StoreOf(heap', head')[i].grade) ]_vars

\* A report of two records that came in descending order of name.
C16_Witness ==
    /\ pc = "stats"
    /\ Len(outFile) = 3
    /\ outFile[1] = [kind |-> "header", students |-> 2]
    /\ head = 2
    /\ Carries(outFile[2].text, Bob, "F")
    /\ Carries(outFile[3].text, bob, "B")

\* The name in a field of exactly 20 characters: padded with blanks when
\* shorter, cut when longer.
NameField(name) ==
    IF Len(name) >= 20 THEN SubSeq(name, 1, 20)
    ELSE name \o [i \in 1..(20 - Len(name)) |-> " "]

\* C17: every record line written has the same width: the name in exactly 20
\* characters (padded or truncated), then 5 characters holding the grade
\* letter right-justified, then a newline: 25 characters and a newline.
C17_FixedWidthLines ==
    pc = "stats" =>
    \A i \in 2..Len(outFile) :
      /\ Len(outFile[i].text) = 26
      /\ SubSeq(outFile[i].text, 1, 20) = NameField(StoreOf(heap, head)[i - 1].name)
      /\ SubSeq(outFile[i].text, 21, 24) = <<" ", " ", " ", " ">>
      /\ outFile[i].text[25] \in {"A", "B", "C", "D", "F"}
      /\ outFile[i].text[26] = END_OF_LINE_CHAR

----------------------------------------------------------------------------
(* Properties of main *)

\* The place of a stage in main's order.
StageRank(stage) ==
    CASE stage = "open_file_in_read_mode" -> 0
      [] stage = "create_student" -> 1
      [] stage = "calculate_student_grade" -> 2
      [] stage = "write_student_data" -> 3
      [] stage = "show_class_statistics" -> 4
      [] stage = "delete_students" -> 5

\* Each call follows the one before it in the order, none left out; only
\* create_student is called once per line: not at all, or again.
InStageOrder(q) ==
    /\ q # <<>> => StageRank(q[1]) = 0
    /\ \A i \in 1..(Len(q) - 1) :
         \/ StageRank(q[i + 1]) = StageRank(q[i]) + 1
         \/ (q[i] = "create_student" /\ q[i + 1] = "create_student")
         \/ (q[i] = "open_file_in_read_mode" /\ q[i + 1] = "calculate_student_grade")

\* The messages with which a stage returns FAILURE.
StageErrors ==
    {"ERR_FILE_EMPTY", "ERR_PARSED_SCORE_INVALID", "ERR_MEMORY_ALLOCATION_ARRAY",
     "ERR_INCORRECT_SCORE_COUNT", "ERR_DIVIDE_BY_ZERO"}

\* C18: the stages run in the order parse all lines, grade all records,
\* write the report, show the statistics, tear down; a stage that returns
\* FAILURE sends main to its exit with status FAILURE and no stage runs after
\* it; main returns SUCCESS only when all five stages have run without error.
C18_StagesInOrderFailFast ==
    [][ /\ InStageOrder(stages')
        /\ (console' # console /\ Last(console').err \in StageErrors) =>
              (status' = FAILURE /\ pc' = "exit")
        /\ createRet' = FAILURE => status' = FAILURE
        /\ status = FAILURE =>
              (stages' = stages /\ status' = FAILURE /\ pc' = "done"
               /\ outFile' = outFile /\ stats' = stats /\ heap' = heap)
        /\ (pc' = "done" /\ status' = SUCCESS) =>
              /\ Last(stages') = "delete_students"
              /\ console' = <<>>
              /\ Len(outFile') >= 2 /\ stats' # <<>> ]_vars

\* A run of all five stages on two lines that returns SUCCESS.
C18_Witness ==
    /\ pc = "done"
    /\ status = SUCCESS
    /\ stages = <<"open_file_in_read_mode", "create_student", "create_student",
                  "calculate_student_grade", "write_student_data",
                  "show_class_statistics", "delete_students">>

\* C19: every run, successful or failed, has called delete_students exactly
\* once by the time main returns, after show_class_statistics, and then every
\* record of the store is freed and head is NULL.
C19_TornDownOnceInEveryRun ==
    pc = "done" =>
        /\ Count(stages, "delete_students") = 1
        /\ Count(stages, "show_class_statistics") = 1
        /\ Last(stages) = "delete_students"
        /\ head = NULL
        /\ Range(ListOf(heap, head)) = {}
        /\ \A n \in 1..Len(heap) : n \in freed

----------------------------------------------------------------------------
(* Properties of the tokenizer *)

\* The tokens get_next_token yields for a string, called until it yields NULL.
RECURSIVE YieldedFrom(_, _)
YieldedFrom(string, g) ==
    IF g.token.isNull THEN <<>>
    ELSE <<g.token.tok>> \o YieldedFrom(string, get_next_token(string, g.token, g.temp))

Yielded(string) == YieldedFrom(string, get_next_token(string, NullToken, NullTemp))

\* The line of the last create_student call that returned SUCCESS, while the
\* record it made is the last of the store.
LineParsed == pc = "read" /\ createRet = SUCCESS /\ Store # <<>>

\* C20: for the line handed to create_student the tokenizer counts one token
\* per field (one more than the line has commas) and yields the fields in
\* order, empty ones included; and the i-th score of the record made from the
\* line is the value of field i + 1 wherever that field is a score text.
C20_EmptyFieldsKept ==
    LineParsed =>
        /\ get_token_count(DataString) = Len(Fields(DataString))
        /\ Yielded(DataString) = Fields(DataString)
        /\ \A i \in 1..Len(Last(Store).scores) :
             (i + 1 <= Len(Fields(DataString)) /\ Fields(DataString)[i + 1] \in ScoreTexts)
                => Last(Store).scores[i] = ScoreValue(Fields(DataString)[i + 1])

----------------------------------------------------------------------------
(* Properties of the store at grading *)

\* C21: when calculate_student_grade is about to start, every record of the
\* store has numberOfScores 7, the number of weights.
C21_SevenScoresBeforeGrading ==
    pc = "grade" => \A i \in 1..Len(Store) : Store[i].numberOfScores = nScoresRequired

----------------------------------------------------------------------------
(* Further properties of sort_list_by_name *)

\* The place of the node current in the list.
PlaceOfCurrent(st) == IndexOf(ListOf(st.heap, st.head), st.current)

\* C22: sort_list_by_name returns for every store; the number of passes
\* never exceeds the number of records; the pass before the return made no
\* swap; and within a pass every turn of the inner loop moves current one
\* place further down the list, so a pass of n records has fewer than n turns.
C22_SortTerminates ==
    /\ <>(sortSt.pc = "return")
    /\ [](sortSt.passes <= Len(SortNamesNow))
    /\ []((sortSt.pc = "return" /\ sortSt.passes >= 1) => (~sortSt.isSwap /\ sortSt.swaps = 0))
    /\ [][ (sortSt.pc = "inner" /\ sortSt'.pc = "inner") =>
              /\ PlaceOfCurrent(sortSt') = PlaceOfCurrent(sortSt) + 1
              /\ PlaceOfCurrent(sortSt') <= Len(SortNamesNow) ]_vars

\* Three records in descending order: sorted in as many passes as records,
\* the last pass without a swap.
C22_Witness ==
    /\ sortSt.pc = "return" /\ sortSt.ret = SUCCESS
    /\ sortSt.passes = 3 /\ sortSt.swaps = 0
    /\ SortNamesNow = <<Alice, Bob, Cy>>

----------------------------------------------------------------------------
(* Properties of the write stage's error handling *)

\* C23: when sort_list_by_name fails on the store, as it does on a store
\* without records, write_names_and_grades_to_file returns FAILURE, and so
\* does write_student_data: main stops with status FAILURE.
C23_SortFailureFailsWrite ==
    [][ (WriteStep /\ sort_list_by_name(heap, head).ret # SUCCESS) =>
          /\ write_names_and_grades_to_file(heap, head).ret = FAILURE
          /\ status' = FAILURE
          /\ pc' = "exit" ]_vars

\* The nodes of the list being sorted, in list order.
SortOrder == ListOf(sortSt.heap, sortSt.head)

\* This step of the sort swaps current and the node after it.
SwapStep == sortSt.pc = "inner" /\ sortSt'.pc = "inner" /\ sortSt'.swaps = sortSt.swaps + 1

\* C24: the sort swaps two adjacent records only when the first name is
\* strictly greater than the second; so two records with equal names stay in
\* the order the list was built in (node i before node j for i < j), during
\* the sort and at its return.
C24_SortStable ==
    /\ [][ SwapStep =>
             strcmp(sortSt.heap[sortSt.current].name,
                    sortSt.heap[sortSt.heap[sortSt.current].next].name) > 0 ]_vars
    /\ [](\A i, j \in 1..Len(SortOrder) :
            (i < j /\ sortSt.heap[SortOrder[i]].name = sortSt.heap[SortOrder[j]].name)
               => SortOrder[i] < SortOrder[j])

\* Bob, Al, Bob has been sorted: the first Bob is still before the second.
C24_Witness ==
    /\ sortSt.pc = "return" /\ sortSt.ret = SUCCESS
    /\ sortSt.passes = 2
    /\ SortOrder = <<2, 1, 3>>
    /\ sortSt.heap[1].name = Bob /\ sortSt.heap[3].name = Bob /\ sortSt.heap[2].name = Al

\* The list from head ends in NULL after visiting each node once and holds
\* every node of the heap: none lost, none twice, no cycle.
WholeList(st) ==
    /\ Len(ListOf(st.heap, st.head)) = Len(st.heap)
    /\ Range(ListOf(st.heap, st.head)) = 1..Len(st.heap)
    /\ st.heap # <<>> => st.heap[Last(ListOf(st.heap, st.head))].next = NULL

\* C25: sort_list_by_name only relinks.  In every state of the sort, so
\* after every swap and at the return, the list from head is acyclic, ends in
\* NULL and holds exactly the records it held at the call; and no step
\* changes the name, scores, numberOfScores or grade of any record.
C25_SortOnlyRelinks ==
    /\ [](WholeList(sortSt))
    /\ [][ /\ Len(sortSt'.heap) = Len(sortSt.heap)
           /\ \A n \in 1..Len(sortSt.heap) :
                Content(sortSt'.heap, n) = Content(sortSt.heap, n) ]_vars

\* Cy, Al, Bob in the middle of the first pass, after two swaps.
C25_Witness ==
    /\ sortSt.pc = "inner" /\ sortSt.passes = 1 /\ sortSt.swaps = 2
    /\ SortOrder = <<2, 3, 1>>
    /\ sortSt.heap[1].name = Cy /\ sortSt.heap[2].name = Al /\ sortSt.heap[3].name = Bob

----------------------------------------------------------------------------
(* Properties of the threshold scan *)

\* A record as set_scores lets it through with the required count: seven
\* scores, each from 0 to 100.
InRange(record) ==
    /\ record.numberOfScores = nScoresRequired
    /\ Len(record.scores) = nScoresRequired
    /\ \A i \in 1..Len(record.scores) : record.scores[i] \in MINIMUM_SCORE..MAXIMUM_SCORE

\* The scan of calculate_grade on a record stops at one of the five table
\* entries, reads nothing past them and assigns a letter.
ScanStaysInTable(g) ==
    /\ g.ret = SUCCESS
    /\ ~g.outOfBounds
    /\ g.index \in 1..Len(GRADE_THRESHOLD)
    /\ g.record.grade = GRADE_LETTER[g.index]

\* C26: the scan loop runs up to 7 times over tables of 5 entries; for every
\* record with 7 scores from 0 to 100 it breaks at one of the 5 entries, so
\* entries 5 and 6 are never read, and whenever calculate_grade has returned
\* SUCCESS the grade is one of the five letters.
C26_ScanWithinTable ==
    /\ (retA = "none" /\ InRange(recA)) => ScanStaysInTable(calculate_grade(recA))
    /\ (retA = SUCCESS /\ InRange(recA)) => recA.grade \in Range(GRADE_LETTER)
    /\ (retB = SUCCESS /\ InRange(recB)) => recB.grade \in Range(GRADE_LETTER)

\* A record of seven zeros has been graded F: the scan went to the last entry.
C26_Witness ==
    /\ retA = SUCCESS
    /\ recA.scores = <<0, 0, 0, 0, 0, 0, 0>>
    /\ recA.grade = "F"
    /\ calculate_grade(Ungraded(recA.name, recA.scores)).index = Len(GRADE_THRESHOLD)

\* What get_next_token returns at its k-th successive call on a string, the
\* caller's token starting as NULL.
RECURSIVE CallsFrom(_, _, _)
CallsFrom(string, g, k) ==
    IF k <= 1 THEN g
    ELSE CallsFrom(string, get_next_token(string, g.token, g.temp), k - 1)

Calls(string, k) == CallsFrom(string, get_next_token(string, NullToken, NullTemp), k)

\* C27: for every line with at least one token handed to create_student, the
\* first get_token_count(line) calls of get_next_token each return a token,
\* working on a copy of the line, the call after them returns NULL and
\* releases the copy (temp is NULL again); and when create_student returns
\* SUCCESS no copy is left, so the next line starts with a fresh tokenizer.
C27_CountAndConsumptionAgree ==
    [][ (CreateStep /\ get_token_count(DataString') >= 1) =>
          /\ \A k \in 1..get_token_count(DataString') :
               /\ ~Calls(DataString', k).token.isNull
               /\ Calls(DataString', k).temp.buf = DataString'
          /\ Calls(DataString', get_token_count(DataString') + 1).token.isNull
          /\ Calls(DataString', get_token_count(DataString') + 1).temp = NullTemp
          /\ createRet' = SUCCESS => temp' = NullTemp ]_vars

\* The second line of a file has been tokenized after the first: eight
\* tokens each, nothing left of either.
C27_Witness ==
    /\ pc = "read" /\ createRet = SUCCESS
    /\ Len(Store) = 2
    /\ get_token_count(DataString) = 8
    /\ Last(Store).name = Calls(DataString, 1).token.tok
    /\ temp = NullTemp

----------------------------------------------------------------------------
(* Properties of the file handling *)

\* read_student_data has returned to main.
ReadReturned == pc \in {"write", "stats", "teardown", "exit", "done"}

\* C28: once read_student_data has returned, on success or on failure, the
\* input file it opened is closed again, also when the file was found empty;
\* and write_student_data leaves no file open either.
C28_OpenedFilesAreClosed == ReadReturned => openFiles = {}

====
